---- MODULE Spec2Model ----
(***************************************************************************)
(* Stroke capture and dual-zone rendering of the mirror whiteboard.        *)
(*                                                                         *)
(* App (src/App.tsx) owns the React state; two CanvasZone instances        *)
(* (src/components/CanvasZone.tsx) gate the pointer events and paint the   *)
(* strokes with drawStroke (src/utils/drawUtils).                          *)
(*                                                                         *)
(* React semantics that the model keeps:                                   *)
(*  - a handler reads the state through the closure of the last render     *)
(*    (variable closure); setState calls update the hook state (variables  *)
(*    strokes, currentStroke), a functional updater reading the hook state *)
(*    and a plain value overwriting it;                                    *)
(*  - pointerdown, pointerup and click are discrete events: React          *)
(*    re-renders synchronously before the next event is delivered;         *)
(*  - pointermove and pointerleave are continuous events: the re-render    *)
(*    is scheduled and may happen after further events (action Rerender).  *)
(***************************************************************************)
EXTENDS Integers, Sequences, FiniteSets, TLC

\* ------------------------------------------------------------------ bounds
\* Most points the stroke log and the in-progress stroke may hold together.
MaxInk == 3

\* ------------------------------------------------------------------ types
TOP == "TOP"
BOTTOM == "BOTTOM"
ActiveZone == {TOP, BOTTOM}
ToolType == {"pen", "eraser"}
PointerTypes == {"mouse", "touch", "pen"}
\* MouseEvent.buttons bit mask: 0 none, 1 primary, 2 secondary, 3 both.
Buttons == 0 .. 3
\* useState<Stroke | null>: null is the empty option, a stroke s is <<s>>.
Null == <<>>
Some(s) == <<s>>
Val(o) == o[1]
NoCapture == "none"

\* Pointer positions, as offsets inside the canvas that receives the event.
Offsets == {<<2, 1>>, <<4, 0>>}
\* getBoundingClientRect() of the canvas of a zone: the zones are stacked.
Rect(z) == [left |-> 0, top |-> IF z = TOP THEN 0 ELSE 3, width |-> 4, height |-> 2]

\* The pointer events the canvas of zone z can receive.  A touch or pen contact
\* reports buttons = 1 while it is down.
Devices ==
  { d \in [pointerType : PointerTypes, buttons : Buttons] :
      d.pointerType # "mouse" => d.buttons = 1 }
EventsAt(z) ==
  { [pointerType |-> d.pointerType, buttons |-> d.buttons,
     clientX |-> Rect(z).left + o[1], clientY |-> Rect(z).top + o[2]] :
       d \in Devices, o \in Offsets }
PointerEvents == [z \in ActiveZone |-> EventsAt(z)]

\* A coordinate quotient n / d in hundredths (0.5 is 50).
Ratio(n, d) == (n * 100) \div d

\* getNormalizedPoint of an event delivered to the canvas of zone z.
getNormalizedPoint(z, e) ==
  [x |-> Ratio(e.clientX - Rect(z).left, Rect(z).width),
   y |-> Ratio(e.clientY - Rect(z).top, Rect(z).height)]

VARIABLES
  strokes,          \* useState<Stroke[]>: the stroke log
  currentStroke,    \* useState<Stroke | null>: the in-progress stroke
  closure,          \* strokes and currentStroke as the last render saw them
  currentTool, penColor, penWidth, eraserWidth,
  activeZone, hideActiveZone, showLabels,
  capture,          \* the zone whose canvas holds pointer capture, or NoCapture
  surface,          \* per zone, the drawStroke calls of its last render()
  lastOp,           \* history: what the last step did (see OpLabels)
  delivered,        \* history: points of the running gesture, in delivery order
  prevActiveZone,   \* history: activeZone before the last step
  atDown,           \* history: the tool settings at the running gesture's down
  ctx,              \* a CanvasRenderingContext2D that drawStroke is applied to
  lastCall,         \* history: the arguments of the last drawStroke on ctx, and
                    \* the paint that lay under its path before the call
  window,           \* window.devicePixelRatio
  containerRef,     \* per zone, containerRef.current: null or the container
                    \* element, by its content box
  canvasRef,        \* per zone, canvasRef.current: null or the canvas element
  observer,         \* per zone, the onResize that the installed ResizeObserver
                    \* calls, by the props its render() closes over; or null
  dprRead           \* history: per zone, the ratio its last resize read

vars == <<strokes, currentStroke, closure, currentTool, penColor, penWidth,
          eraserWidth, activeZone, hideActiveZone, showLabels, capture, surface,
          lastOp, delivered, prevActiveZone, atDown, ctx, lastCall,
          window, containerRef, canvasRef, observer, dprRead>>

settings == <<currentTool, penColor, penWidth, eraserWidth>>
flags == <<activeZone, hideActiveZone, showLabels>>
canvasVars == <<window, containerRef, canvasRef, observer, dprRead>>

\* ------------------------------------------------------------- CanvasZone
isMirror(zoneType, active) == active # zoneType
isActiveWritingZone(zoneType, active) == active = zoneType
\* Mutant of shouldShowContent: the hidden flag blanks both zones.
shouldShowContentNone(zoneType, active, isHidden) == ~isHidden

shouldShowContent(zoneType, active, isHidden) ==
  ~(isActiveWritingZone(zoneType, active) /\ isHidden)

\* ---- the canvas 2D context, as far as drawStroke and render() use it
\* Coordinates on the canvas are in hundredths of a CSS pixel, so that a
\* normalized coordinate (hundredths) times a logical size is exact.
\* getContext("2d") of a canvas: the defaults of the canvas API.
getContext(canvas) ==
  [canvas |-> canvas, globalCompositeOperation |-> "source-over",
   strokeStyle |-> "#000000", lineWidth |-> 1, lineCap |-> "butt",
   lineJoin |-> "miter", path |-> <<>>, pixels |-> {}]
beginPath(c) == [c EXCEPT !.path = <<>>]
moveTo(c, x, y) == [c EXCEPT !.path = Append(@, [op |-> "moveTo", x |-> x, y |-> y])]
lineTo(c, x, y) == [c EXCEPT !.path = Append(@, [op |-> "lineTo", x |-> x, y |-> y])]
\* The places a path passes through: its vertices.
pathCells(path) == { <<path[i].x, path[i].y>> : i \in DOMAIN path }
\* Mutant of strokePath: the paint goes on top whatever the compositing mode.
strokePathOver(c) ==
  LET cells == pathCells(c.path)
      kept == { px \in c.pixels : <<px[1], px[2]>> \notin cells }
  IN [c EXCEPT !.pixels =
        kept \cup { <<cell[1], cell[2], c.strokeStyle>> : cell \in cells }]

\* ctx.stroke(): paints the path with strokeStyle under the compositing mode;
\* the paint is opaque, so source-over replaces what a place held and
\* destination-out leaves the place transparent.  pixels holds <<x, y, paint>>.
strokePath(c) ==
  LET cells == pathCells(c.path)
      kept == { px \in c.pixels : <<px[1], px[2]>> \notin cells }
  IN [c EXCEPT !.pixels =
        IF c.globalCompositeOperation = "destination-out" THEN kept
        ELSE kept \cup { <<cell[1], cell[2], c.strokeStyle>> : cell \in cells }]
clearRect(c) == [c EXCEPT !.pixels = {}]

\* Mutant of lineLoop: the points after the first are never mirrored.
RECURSIVE lineLoopUnmirrored(_, _, _, _, _, _)
lineLoopUnmirrored(c, points, i, width, height, mirror) ==
  IF i > Len(points) THEN c
  ELSE lineLoopUnmirrored(lineTo(c, points[i].x * width, points[i].y * height),
                          points, i + 1, width, height, mirror)

\* for (let i = 1; i < stroke.points.length; i++) ctx.lineTo(...)
RECURSIVE lineLoop(_, _, _, _, _, _)
lineLoop(c, points, i, width, height, mirror) ==
  IF i > Len(points) THEN c
  ELSE LET p == points[i]
           x == p.x * width
           y == IF mirror THEN (100 - p.y) * height ELSE p.y * height
       IN lineLoop(lineTo(c, x, y), points, i + 1, width, height, mirror)

\* Mutant of drawStroke: a single point gets no lineTo.
drawStrokeNoDot(c, stroke, width, height, mirror) ==
  IF Len(stroke.points) < 1 THEN c
  ELSE
    LET c1 == [beginPath(c) EXCEPT !.lineCap = "round", !.lineJoin = "round"]
        c2 == IF stroke.isEraser
              THEN [c1 EXCEPT !.globalCompositeOperation = "destination-out",
                              !.strokeStyle = "rgba(0,0,0,1)"]
              ELSE [c1 EXCEPT !.globalCompositeOperation = "source-over",
                              !.strokeStyle = stroke.color]
        c3 == [c2 EXCEPT !.lineWidth = stroke.width]
        p0 == stroke.points[1]
        startX == p0.x * width
        startY == IF mirror THEN (100 - p0.y) * height ELSE p0.y * height
        c4 == moveTo(c3, startX, startY)
        c5 == lineLoop(c4, stroke.points, 2, width, height, mirror)
    IN [strokePath(c5) EXCEPT !.globalCompositeOperation = "source-over"]

\* Mutant of drawStroke: the compositing mode is not restored at the end.
drawStrokeNoRestore(c, stroke, width, height, mirror) ==
  IF Len(stroke.points) < 1 THEN c
  ELSE
    LET c1 == [beginPath(c) EXCEPT !.lineCap = "round", !.lineJoin = "round"]
        c2 == IF stroke.isEraser
              THEN [c1 EXCEPT !.globalCompositeOperation = "destination-out",
                              !.strokeStyle = "rgba(0,0,0,1)"]
              ELSE [c1 EXCEPT !.globalCompositeOperation = "source-over",
                              !.strokeStyle = stroke.color]
        c3 == [c2 EXCEPT !.lineWidth = stroke.width]
        p0 == stroke.points[1]
        startX == p0.x * width
        startY == IF mirror THEN (100 - p0.y) * height ELSE p0.y * height
        c4 == moveTo(c3, startX, startY)
        c5 == IF Len(stroke.points) = 1 THEN lineTo(c4, startX, startY)
              ELSE lineLoop(c4, stroke.points, 2, width, height, mirror)
    IN strokePath(c5)

\* drawStroke(ctx, stroke, width, height, isMirror): the context it leaves.
drawStroke(c, stroke, width, height, mirror) ==
  IF Len(stroke.points) < 1 THEN c
  ELSE
    LET c1 == [beginPath(c) EXCEPT !.lineCap = "round", !.lineJoin = "round"]
        c2 == IF stroke.isEraser
              THEN [c1 EXCEPT !.globalCompositeOperation = "destination-out",
                              !.strokeStyle = "rgba(0,0,0,1)"]
              ELSE [c1 EXCEPT !.globalCompositeOperation = "source-over",
                              !.strokeStyle = stroke.color]
        c3 == [c2 EXCEPT !.lineWidth = stroke.width]
        p0 == stroke.points[1]
        startX == p0.x * width
        startY == IF mirror THEN (100 - p0.y) * height ELSE p0.y * height
        c4 == moveTo(c3, startX, startY)
        c5 == IF Len(stroke.points) = 1 THEN lineTo(c4, startX, startY)
              ELSE lineLoop(c4, stroke.points, 2, width, height, mirror)
    IN [strokePath(c5) EXCEPT !.globalCompositeOperation = "source-over"]

\* ---- useCanvasResize
\* Lengths of the layout (contentRect, style) and the logical lengths that
\* render() computes are in halves of a CSS pixel; canvas.width and
\* canvas.height are whole device pixels.
\* The window the page opens in.
Window == [devicePixelRatio |-> 2]
\* window.devicePixelRatio || 1
dprOf(w) == IF w.devicePixelRatio = 0 THEN 1 ELSE w.devicePixelRatio
\* canvas.width and canvas.height are unsigned long attributes: the fraction
\* of the number assigned (here in halves) is dropped.
toUnsignedLong(halves) == halves \div 2
\* The canvas element of a CanvasZone before any resize: the default size of
\* the element, no style size, the identity transform on its context.
NewCanvas ==
  [width |-> 300, height |-> 150, style |-> [width |-> 0, height |-> 0],
   transform |-> 1]
\* The content box of the container of zone z in the initial layout.
contentRect(z) == [width |-> Rect(z).width * 2, height |-> Rect(z).height * 2]

\* Mutant of resize: the context keeps its transform when the canvas is sized.
resizeCompounding(canvas, rect, w) ==
  LET dpr == dprOf(w)
      sized == [canvas EXCEPT !.width = toUnsignedLong(rect.width * dpr),
                              !.height = toUnsignedLong(rect.height * dpr)]
      styled == [sized EXCEPT !.style = [width |-> rect.width, height |-> rect.height]]
  IN [styled EXCEPT !.transform = @ * dpr]

\* The ResizeObserver callback on the canvas, for the entry's contentRect:
\* assigning canvas.width / canvas.height resets the context (its transform
\* is the identity again), then ctx.scale(dpr, dpr).
resize(canvas, rect, w) ==
  LET dpr == dprOf(w)
      sized == [canvas EXCEPT !.width = toUnsignedLong(rect.width * dpr),
                              !.height = toUnsignedLong(rect.height * dpr),
                              !.transform = 1]
      styled == [sized EXCEPT !.style = [width |-> rect.width, height |-> rect.height]]
  IN [styled EXCEPT !.transform = @ * dpr]

\* The canvas of a zone as the first callback of the observer sized it.
Canvas(z) == resize(NewCanvas, contentRect(z), Window)

\* ---- render() of a CanvasZone
\* canvas.width / dpr and canvas.height / dpr, in halves of a CSS pixel.
logicalWidth(canvas, w) == (canvas.width * 2) \div dprOf(w)
logicalHeight(canvas, w) == (canvas.height * 2) \div dprOf(w)

\* strokes.forEach(stroke => drawStroke(ctx, stroke, logicalWidth,
\* logicalHeight, isMirror)): the calls it makes, by their arguments.
RECURSIVE drawAll(_, _, _, _)
drawAll(ss, width, height, mirror) ==
  IF ss = <<>> THEN <<>>
  ELSE << [stroke |-> Head(ss), width |-> width, height |-> height,
           isMirror |-> mirror] >>
       \o drawAll(Tail(ss), width, height, mirror)

\* Mutant of render: the in-progress stroke is drawn before the log.
renderCurrentFirst(zoneType, active, isHidden, ss, cs, ref, w, held) ==
  IF ref = Null THEN held
  ELSE IF ~shouldShowContent(zoneType, active, isHidden) THEN <<>>
  ELSE drawAll(cs \o ss, logicalWidth(Val(ref), w), logicalHeight(Val(ref), w),
               isMirror(zoneType, active))

\* render() of the zone on the canvas that ref holds: nothing without a
\* canvas (the canvas keeps what it held); else clearRect, then the log in
\* order, then the in-progress stroke.  The result is the drawStroke calls
\* since clearRect.
render(zoneType, active, isHidden, ss, cs, ref, w, held) ==
  IF ref = Null THEN held
  ELSE IF ~shouldShowContent(zoneType, active, isHidden) THEN <<>>
  ELSE drawAll(ss \o cs, logicalWidth(Val(ref), w), logicalHeight(Val(ref), w),
               isMirror(zoneType, active))

\* The canvas after the drawStroke calls of a render().
RECURSIVE paint(_, _)
paint(c, calls) ==
  IF calls = <<>> THEN c
  ELSE paint(drawStroke(c, Head(calls).stroke, Head(calls).width,
                        Head(calls).height, Head(calls).isMirror),
             Tail(calls))
\* What the canvas of zone z holds after its last render().
canvasOf(z, calls) == paint(clearRect(getContext(Val(canvasRef[z]))), calls)

\* Mutant of installed: the observer installed first is never replaced.
installedOnce(z, ss, cs, active, isHidden) ==
  IF containerRef[z] = Null \/ canvasRef[z] = Null THEN Null
  ELSE IF observer[z] # Null THEN observer[z]
  ELSE Some([strokes |-> ss, currentStroke |-> cs, activeZone |-> active,
             hideActiveZone |-> isHidden])

\* The effect of useCanvasResize in zone z after a React render: the previous
\* observer is disconnected; without a container or a canvas nothing is
\* installed, else a new observer whose onResize is the render() of this
\* React render.
installed(z, ss, cs, active, isHidden) ==
  IF containerRef[z] = Null \/ canvasRef[z] = Null THEN Null
  ELSE Some([strokes |-> ss, currentStroke |-> cs, activeZone |-> active,
             hideActiveZone |-> isHidden])

\* A React render of App: the handlers close over the state, and the effect
\* of each CanvasZone repaints its canvas.
ReactRender(ss, cs, active, isHidden) ==
  /\ closure' = [strokes |-> ss, currentStroke |-> cs]
  /\ surface' = [z \in ActiveZone |->
                   render(z, active, isHidden, ss, cs, canvasRef[z], window, surface[z])]
  /\ observer' = [z \in ActiveZone |-> installed(z, ss, cs, active, isHidden)]
  /\ UNCHANGED <<window, containerRef, canvasRef, dprRead>>

\* --------------------------------------------------------------------- App
RECURSIVE pointCount(_)
pointCount(ss) ==
  IF ss = <<>> THEN 0 ELSE Len(Head(ss).points) + pointCount(Tail(ss))
\* Points held by a log and an in-progress stroke (the model's size measure).
ink(ss, cs) == pointCount(ss) + pointCount(cs)

\* No gesture is running / no drawStroke call was made yet.
NoSettings == [tool |-> "none", penColor |-> "", penWidth |-> 0, eraserWidth |-> 0]
NoCall == [stroke |-> [points |-> <<>>, color |-> "", width |-> 0, isEraser |-> FALSE],
           width |-> 0, height |-> 0, isMirror |-> FALSE, under |-> {}]
\* The state of App after its first render.
InitApp ==
  /\ strokes = <<>>
  /\ currentStroke = Null
  /\ closure = [strokes |-> <<>>, currentStroke |-> Null]
  /\ currentTool = "pen"
  /\ penColor = "#000000"
  /\ penWidth = 4
  /\ eraserWidth = 20
  /\ activeZone = BOTTOM
  /\ hideActiveZone = FALSE
  /\ showLabels = TRUE
  /\ capture = NoCapture
  /\ surface = [z \in ActiveZone |-> <<>>]
  /\ lastOp = "init"
  /\ delivered = <<>>
  /\ prevActiveZone = BOTTOM
  /\ atDown = NoSettings
  /\ window = Window
  /\ containerRef = [z \in ActiveZone |-> Some(contentRect(z))]
  /\ canvasRef = [z \in ActiveZone |-> Some(Canvas(z))]
  /\ observer = [z \in ActiveZone |->
                   Some([strokes |-> <<>>, currentStroke |-> Null,
                         activeZone |-> BOTTOM, hideActiveZone |-> FALSE])]
  /\ dprRead = [z \in ActiveZone |-> dprOf(Window)]

Init ==
  /\ InitApp
  /\ ctx = getContext(Canvas(BOTTOM))
  /\ lastCall = NoCall

\* Mutant of notPrimary: only a mouse with no button down is turned away.
notPrimaryNoButton(e) == e.pointerType = "mouse" /\ e.buttons = 0

\* handlePointerDown rejects a mouse whose buttons are not exactly primary;
\* handlePointerMove reads the same test as a released contact.
notPrimary(e) == e.pointerType = "mouse" /\ e.buttons # 1

\* Mutant of newStroke: the stroke starts without a point.
newStrokeEmpty(point) ==
  [points |-> <<>>,
   color |-> penColor,
   width |-> IF currentTool = "eraser" THEN eraserWidth ELSE penWidth,
   isEraser |-> currentTool = "eraser"]

\* Mutant of newStroke: the width is the pen width whatever the tool.
newStrokePenWidth(point) ==
  [points |-> <<point>>,
   color |-> penColor,
   width |-> penWidth,
   isEraser |-> currentTool = "eraser"]

newStroke(point) ==
  [points |-> <<point>>,
   color |-> penColor,
   width |-> IF currentTool = "eraser" THEN eraserWidth ELSE penWidth,
   isEraser |-> currentTool = "eraser"]

\* History variables: what the step did, the points of the running gesture,
\* and the active zone the step started from.
History(op, points) ==
  /\ lastOp' = op
  /\ delivered' = points
  /\ prevActiveZone' = activeZone
  /\ atDown' = IF op = "down"
                 THEN [tool |-> currentTool, penColor |-> penColor,
                       penWidth |-> penWidth, eraserWidth |-> eraserWidth]
               ELSE IF op \in {"up", "leave", "moveRelease", "clear", "clearGesture"}
                 THEN NoSettings
               ELSE atDown
  /\ UNCHANGED <<ctx, lastCall>>

\* An event whose handler returns before any setState or capture call.
Ignored(op) ==
  /\ History(op, delivered)
  /\ UNCHANGED <<strokes, currentStroke, closure, settings, flags, capture, surface,
                 canvasVars>>

\* onPointerDown of the canvas of zone z (a discrete event: React renders
\* before the next event).
PointerDown(z, e) ==
  IF ~isActiveWritingZone(z, activeZone) THEN Ignored("offZone")
  ELSE IF notPrimary(e) THEN Ignored("downRejected")
  ELSE /\ ink(strokes, Null) < MaxInk
       /\ capture' = z
       /\ currentStroke' = Some(newStroke(getNormalizedPoint(z, e)))
       /\ ReactRender(strokes, currentStroke', activeZone, hideActiveZone)
       /\ History("down", <<getNormalizedPoint(z, e)>>)
       /\ UNCHANGED <<strokes, settings, flags>>

\* Mutant of commit: the in-progress stroke is not cleared.
commitKeep(closed) ==
  /\ strokes' = Append(strokes, Val(closed))
  /\ currentStroke' = currentStroke

\* Mutant of commit: the stroke is put at the front of the log.
commitFront(closed) ==
  /\ strokes' = <<Val(closed)>> \o strokes
  /\ currentStroke' = Null

\* The setStrokes((prev) => [...prev, currentStroke]) / setCurrentStroke(null)
\* pair of handlePointerMove and handlePointerUp: the appended stroke is the
\* one the handler's closure holds.
commit(closed) ==
  /\ strokes' = Append(strokes, Val(closed))
  /\ currentStroke' = Null

\* The updater of setCurrentStroke in handlePointerMove.
appendPoint(prev, point) ==
  IF prev = Null THEN Null
  ELSE Some([Val(prev) EXCEPT !.points = Append(@, point)])

\* onPointerMove of the canvas of zone z (a continuous event: the render is
\* scheduled, not run).
PointerMove(z, e) ==
  IF ~isActiveWritingZone(z, activeZone) THEN Ignored("offZone")
  ELSE IF closure.currentStroke = Null THEN Ignored("idle")
  ELSE IF notPrimary(e)
    THEN /\ ink(strokes, closure.currentStroke) <= MaxInk
         /\ commit(closure.currentStroke)
         /\ History("moveRelease", <<>>)
         /\ UNCHANGED <<closure, settings, flags, capture, surface, canvasVars>>
    ELSE /\ currentStroke # Null => ink(strokes, currentStroke) < MaxInk
         /\ currentStroke' = appendPoint(currentStroke, getNormalizedPoint(z, e))
         /\ IF currentStroke = Null
              THEN History("moveStale", delivered)
              ELSE History("move", Append(delivered, getNormalizedPoint(z, e)))
         /\ UNCHANGED <<strokes, closure, settings, flags, capture, surface,
                        canvasVars>>

\* releasePointerCapture on the canvas of zone z.
released(z) == IF capture = z THEN NoCapture ELSE capture

\* onPointerUp of the canvas of zone z: bound only on the active zone
\* (a discrete event: React renders before the next event).  The handler
\* reads nothing of the event but its target and pointer id.
PointerUp(z) ==
  IF ~isActiveWritingZone(z, activeZone) THEN Ignored("offZone")
  ELSE IF closure.currentStroke = Null THEN Ignored("idle")
  ELSE /\ ink(strokes, closure.currentStroke) <= MaxInk
       /\ commit(closure.currentStroke)
       /\ capture' = released(z)
       /\ ReactRender(strokes', currentStroke', activeZone, hideActiveZone)
       /\ History("up", <<>>)
       /\ UNCHANGED <<settings, flags>>

\* onPointerLeave of the canvas of zone z: the same handler as onPointerUp,
\* delivered as a continuous event.
PointerLeave(z) ==
  IF ~isActiveWritingZone(z, activeZone) THEN Ignored("offZone")
  ELSE IF closure.currentStroke = Null THEN Ignored("idle")
  ELSE /\ ink(strokes, closure.currentStroke) <= MaxInk
       /\ commit(closure.currentStroke)
       /\ capture' = released(z)
       /\ History("leave", <<>>)
       /\ UNCHANGED <<closure, settings, flags, surface, canvasVars>>

\* The scheduled render after continuous events.
Rerender ==
  /\ closure # [strokes |-> strokes, currentStroke |-> currentStroke]
  /\ ReactRender(strokes, currentStroke, activeZone, hideActiveZone)
  /\ History("other", delivered)
  /\ UNCHANGED <<strokes, currentStroke, settings, flags, capture>>

\* Mutant of ClearStrokes: the in-progress stroke survives the clear.
ClearStrokesKeep ==
  /\ strokes' = <<>>
  /\ currentStroke' = currentStroke
  /\ ReactRender(strokes', currentStroke', activeZone, hideActiveZone)
  /\ History(IF currentStroke # Null THEN "clearGesture" ELSE "clear", delivered)
  /\ UNCHANGED <<settings, flags, capture>>

\* handleClearStrokes (Sidebar onClearClick).
ClearStrokes ==
  /\ strokes' = <<>>
  /\ currentStroke' = Null
  /\ ReactRender(strokes', currentStroke', activeZone, hideActiveZone)
  /\ History(IF currentStroke # Null THEN "clearGesture" ELSE "clear", <<>>)
  /\ UNCHANGED <<settings, flags, capture>>

\* Mutant of toggled: the toggle always selects the top zone.
toggledTop(prev) == TOP

\* The updater of setActiveZone in onToggleSide.
toggled(prev) == IF prev = TOP THEN BOTTOM ELSE TOP

\* Mutant of ToggleSide: the toggle also drops the in-progress stroke.
ToggleSideCancel ==
  /\ activeZone' = toggled(activeZone)
  /\ currentStroke' = Null
  /\ ReactRender(strokes, currentStroke', activeZone', hideActiveZone)
  /\ History("toggleSide", delivered)
  /\ UNCHANGED <<strokes, settings, hideActiveZone, showLabels, capture>>

ToggleSide ==
  /\ activeZone' = toggled(activeZone)
  /\ ReactRender(strokes, currentStroke, activeZone', hideActiveZone)
  /\ History("toggleSide", delivered)
  /\ UNCHANGED <<strokes, currentStroke, settings, hideActiveZone, showLabels,
                 capture>>

ToggleVisibility ==
  /\ hideActiveZone' = ~hideActiveZone
  /\ ReactRender(strokes, currentStroke, activeZone, hideActiveZone')
  /\ History("other", delivered)
  /\ UNCHANGED <<strokes, currentStroke, settings, activeZone, showLabels, capture>>

ToggleLabels ==
  /\ showLabels' = ~showLabels
  /\ ReactRender(strokes, currentStroke, activeZone, hideActiveZone)
  /\ History("other", delivered)
  /\ UNCHANGED <<strokes, currentStroke, settings, activeZone, hideActiveZone,
                 capture>>

\* onToolChange = setCurrentTool (Sidebar pen and eraser buttons).
ToolChange(tool) ==
  /\ currentTool' = tool
  /\ ReactRender(strokes, currentStroke, activeZone, hideActiveZone)
  /\ History("other", delivered)
  /\ UNCHANGED <<strokes, currentStroke, penColor, penWidth, eraserWidth, flags,
                 capture>>

\* The capture machine with the zone and visibility toggles.
Next ==
  \/ \E z \in ActiveZone : \E e \in PointerEvents[z] : PointerDown(z, e)
  \/ \E z \in ActiveZone : \E e \in PointerEvents[z] : PointerMove(z, e)
  \/ \E z \in ActiveZone : PointerUp(z)
  \/ \E z \in ActiveZone : PointerLeave(z)
  \/ Rerender
  \/ ClearStrokes
  \/ ToggleSide
  \/ ToggleVisibility

Spec == Init /\ [][Next]_vars

\* The whole Sidebar: the remaining toggles and the tool buttons, with the
\* pointer kept at the canvas position (0.5, 0.5).
CentreEvents ==
  [z \in ActiveZone |->
     { e \in PointerEvents[z] : getNormalizedPoint(z, e) = [x |-> 50, y |-> 50] }]

NextUI ==
  \/ \E z \in ActiveZone : \E e \in CentreEvents[z] : PointerDown(z, e)
  \/ \E z \in ActiveZone : \E e \in CentreEvents[z] : PointerMove(z, e)
  \/ \E z \in ActiveZone : PointerUp(z)
  \/ \E z \in ActiveZone : PointerLeave(z)
  \/ Rerender
  \/ ClearStrokes
  \/ ToggleSide
  \/ ToggleVisibility
  \/ ToggleLabels
  \/ \E tool \in ToolType : ToolChange(tool)

SpecUI == Init /\ [][NextUI]_vars

\* The SettingsModal: onColorChange = setPenColor; onWidthChange is
\* setEraserWidth while the eraser is the tool and setPenWidth otherwise.
\* The color and the width that the modal is used to pick.
PickedColors == {"#ef4444"}
PickedWidths == {8}

ColorChange(c) ==
  /\ penColor' = c
  /\ ReactRender(strokes, currentStroke, activeZone, hideActiveZone)
  /\ History("other", delivered)
  /\ UNCHANGED <<strokes, currentStroke, currentTool, penWidth, eraserWidth,
                 flags, capture>>

WidthChange(w) ==
  /\ IF currentTool = "eraser"
       THEN eraserWidth' = w /\ penWidth' = penWidth
       ELSE penWidth' = w /\ eraserWidth' = eraserWidth
  /\ ReactRender(strokes, currentStroke, activeZone, hideActiveZone)
  /\ History("other", delivered)
  /\ UNCHANGED <<strokes, currentStroke, currentTool, penColor, flags, capture>>

\* The capture machine with the tool buttons and the SettingsModal, a finger
\* kept at the position (0.5, 0.5) of the active zone's canvas.
TouchEvents ==
  [z \in ActiveZone |-> { e \in CentreEvents[z] : e.pointerType = "touch" }]

NextSettings ==
  \/ \E e \in TouchEvents[activeZone] : PointerDown(activeZone, e)
  \/ \E e \in TouchEvents[activeZone] : PointerMove(activeZone, e)
  \/ PointerUp(activeZone)
  \/ PointerLeave(activeZone)
  \/ Rerender
  \/ \E tool \in ToolType : ToolChange(tool)
  \/ \E c \in PickedColors : ColorChange(c)
  \/ \E w \in PickedWidths : WidthChange(w)

SpecSettings == Init /\ [][NextSettings]_vars

\* ---- resizes, device pixel ratio changes and unmounting
\* Content boxes a container is laid out with (halves of a CSS pixel), and
\* device pixel ratios of the screens the window is shown on.
ContentRects == {[width |-> 8, height |-> 4], [width |-> 7, height |-> 5]}
DevicePixelRatios == {1, 2}

\* The container of zone z is laid out with the content box rect and the
\* ResizeObserver installed on it, if any, runs its callback: the canvas is
\* sized and scaled, then onResize() renders.  Without an observer (the
\* effect found no container or canvas) nothing handles the resize.
ResizeObserved(z, rect) ==
  IF observer[z] = Null THEN Ignored("unmounted")
  ELSE /\ containerRef' = [containerRef EXCEPT ![z] = Some(rect)]
       /\ canvasRef' = [canvasRef EXCEPT
                          ![z] = Some(resize(Val(canvasRef[z]), rect, window))]
       /\ dprRead' = [dprRead EXCEPT ![z] = dprOf(window)]
       /\ surface' = [surface EXCEPT
                        ![z] = render(z, Val(observer[z]).activeZone,
                                      Val(observer[z]).hideActiveZone,
                                      Val(observer[z]).strokes,
                                      Val(observer[z]).currentStroke,
                                      canvasRef'[z], window, surface[z])]
       /\ History("resize", delivered)
       /\ UNCHANGED <<strokes, currentStroke, closure, settings, flags, capture,
                      window, observer>>

\* The window moves to a screen of another device pixel ratio: no event
\* reaches the page's code.
DprChange(dpr) ==
  /\ dpr # window.devicePixelRatio
  /\ window' = [devicePixelRatio |-> dpr]
  /\ History("dpr", delivered)
  /\ UNCHANGED <<strokes, currentStroke, closure, settings, flags, capture,
                 surface, containerRef, canvasRef, observer, dprRead>>

\* The CanvasZone of zone z leaves the tree: React nulls its refs and the
\* cleanup of the effect disconnects the observer.
Unmount(z) ==
  /\ canvasRef[z] # Null
  /\ containerRef' = [containerRef EXCEPT ![z] = Null]
  /\ canvasRef' = [canvasRef EXCEPT ![z] = Null]
  /\ observer' = [observer EXCEPT ![z] = Null]
  /\ surface' = [surface EXCEPT ![z] = <<>>]
  /\ History("unmount", delivered)
  /\ UNCHANGED <<strokes, currentStroke, closure, settings, flags, capture,
                 window, dprRead>>

\* Strokes of a finger at the centre of the active zone and the zone toggles,
\* with resizes, screen changes and unmounting.
NextResize ==
  \/ \E e \in TouchEvents[activeZone] :
       canvasRef[activeZone] # Null /\ PointerDown(activeZone, e)
  \/ \E e \in TouchEvents[activeZone] :
       canvasRef[activeZone] # Null /\ PointerMove(activeZone, e)
  \/ canvasRef[activeZone] # Null /\ PointerUp(activeZone)
  \/ Rerender
  \/ ToggleSide
  \/ ToggleVisibility
  \/ \E z \in ActiveZone : \E rect \in ContentRects : ResizeObserved(z, rect)
  \/ \E dpr \in DevicePixelRatios : DprChange(dpr)
  \/ \E z \in ActiveZone : Unmount(z)

SpecResize == Init /\ [][NextResize]_vars

\* ---- drawStroke on one canvas context
\* Most points of a stroke handed to drawStroke.
MaxDrawPoints == 2
\* Normalized points (hundredths) that the strokes are made of.
DrawPoints == {[x |-> 25, y |-> 0], [x |-> 50, y |-> 75]}
RECURSIVE PointSeqs(_)
PointSeqs(n) ==
  IF n = 0 THEN {<<>>}
  ELSE PointSeqs(n - 1)
       \cup { Append(ps, p) : ps \in { q \in PointSeqs(n - 1) : Len(q) = n - 1 },
                               p \in DrawPoints }
\* The strokes of the Stroke type up to the bound: a pen stroke of either
\* color and the initial pen width, an eraser stroke of the initial eraser
\* width; a stroke without points included.
DrawStrokes ==
  { [points |-> ps, color |-> c, width |-> IF b THEN 20 ELSE 4, isEraser |-> b] :
      ps \in PointSeqs(MaxDrawPoints), c \in {"#000000", "#ef4444"},
      b \in BOOLEAN }
\* Backing stores of a canvas: that of a zone, and a square one.
DrawCanvases == {Canvas(BOTTOM), [Canvas(BOTTOM) EXCEPT !.width = 6, !.height = 6]}

InitDraw ==
  /\ InitApp
  /\ \E canvas \in DrawCanvases : ctx = getContext(canvas)
  /\ lastCall = NoCall

appVars == <<strokes, currentStroke, closure, currentTool, penColor, penWidth,
             eraserWidth, activeZone, hideActiveZone, showLabels, capture,
             surface, lastOp, delivered, prevActiveZone, atDown, window,
             containerRef, canvasRef, observer, dprRead>>

\* render() opens with clearRect and fixes the mirror flag of its calls.
ClearCanvas(mirror) ==
  /\ ctx' = clearRect(ctx)
  /\ lastCall' = [NoCall EXCEPT !.isMirror = mirror]
  /\ UNCHANGED appVars

\* One drawStroke call of render() on the context.
Draw(stroke) ==
  /\ ctx' = drawStroke(ctx, stroke, logicalWidth(ctx.canvas, window),
                       logicalHeight(ctx.canvas, window), lastCall.isMirror)
  /\ lastCall' = [stroke |-> stroke, width |-> logicalWidth(ctx.canvas, window),
                  height |-> logicalHeight(ctx.canvas, window),
                  isMirror |-> lastCall.isMirror,
                  under |-> IF stroke.points = <<>> THEN {}
                            ELSE { px \in ctx.pixels :
                                     <<px[1], px[2]>> \in pathCells(ctx'.path) }]
  /\ UNCHANGED appVars

NextDraw ==
  \/ \E mirror \in BOOLEAN : ClearCanvas(mirror)
  \/ \E stroke \in DrawStrokes : Draw(stroke)

SpecDraw == InitDraw /\ [][NextDraw]_vars

\* ------------------------------------------------------------------ claims
\* Values of lastOp.  "offZone": an event on the canvas of the non-active
\* zone; "idle": a move, up or leave whose handler found no in-progress
\* stroke; "downRejected": a mouse down without exactly the primary button;
\* "moveStale": a move whose updater found no in-progress stroke; "other":
\* a render, or a Sidebar action other than clear and toggle side.
OpLabels ==
  {"init", "down", "downRejected", "move", "moveStale", "moveRelease", "up",
   "leave", "offZone", "idle", "clear", "clearGesture", "toggleSide", "other",
   "resize", "unmounted", "dpr", "unmount"}
CommitOps == {"up", "leave", "moveRelease"}
ClearOps == {"clear", "clearGesture"}
other(z) == IF z = TOP THEN BOTTOM ELSE TOP
strokesOf(calls) == [i \in 1 .. Len(calls) |-> calls[i].stroke]

\* C1: from Idle, an accepted pointer-down creates an in-progress stroke
\* whose only point is the down position and leaves the log unchanged; the
\* pointer-up that follows appends exactly that stroke at the end of the log
\* (one more stroke) and leaves no in-progress stroke.
C1_DownThenUp ==
  /\ [](lastOp = "down" =>
          currentStroke # Null /\ closure.currentStroke = currentStroke)
  /\ [][/\ (currentStroke = Null /\ lastOp' = "down") =>
             \A z \in ActiveZone : \A e \in PointerEvents[z] : PointerDown(z, e) =>
                /\ currentStroke' # Null
                /\ Val(currentStroke').points = <<getNormalizedPoint(z, e)>>
                /\ strokes' = strokes
        /\ (lastOp = "down" /\ lastOp' = "up") =>
                /\ strokes' = Append(strokes, Val(currentStroke))
                /\ Len(strokes') = Len(strokes) + 1
                /\ currentStroke' = Null]_vars

\* Scenario A: down at (0.5, 0.5), up: the log holds that one stroke.
C1_Witness ==
  /\ lastOp = "up"
  /\ strokes = << [points |-> << [x |-> 50, y |-> 50] >>, color |-> "#000000",
                   width |-> 4, isEraser |-> FALSE] >>
  /\ currentStroke = Null

C3_CommitHasDeliveredPoints ==
  [][(lastOp' \in CommitOps /\ currentStroke # Null) =>
        /\ Len(strokes') = Len(strokes) + 1
        /\ strokes'[Len(strokes')].points = delivered]_vars

\* C4: a clear empties the log; every other step leaves the log as it is or
\* puts one stroke at its end, the strokes before it untouched.
C4_AppendOnly ==
  [][IF lastOp' \in ClearOps THEN strokes' = <<>>
     ELSE \/ strokes' = strokes
          \/ /\ Len(strokes') = Len(strokes) + 1
             /\ SubSeq(strokes', 1, Len(strokes)) = strokes]_vars

C4_Witness ==
  /\ lastOp \in CommitOps
  /\ Len(strokes) = 2
  /\ strokes[1] # strokes[2]

\* C5: one of TOP and BOTTOM is active; exactly one zone is mirrored, and
\* every stroke a zone painted was painted with mirror = (zone # active zone);
\* only a toggle changes the active zone, a toggle flips it, and a second
\* toggle restores it.
C5_OneActiveOneMirror ==
  /\ [](/\ activeZone \in ActiveZone
        /\ Cardinality({z \in ActiveZone : isMirror(z, activeZone)}) = 1
        /\ Cardinality({z \in ActiveZone : ~isMirror(z, activeZone)}) = 1
        /\ \A z \in ActiveZone : \A i \in 1 .. Len(surface[z]) :
             surface[z][i].isMirror = (z # activeZone)
        /\ IF lastOp = "toggleSide" THEN activeZone # prevActiveZone
           ELSE lastOp # "init" => activeZone = prevActiveZone)
  /\ [][(lastOp = "toggleSide" /\ lastOp' = "toggleSide") =>
          activeZone' = prevActiveZone]_vars

\* BOTTOM is active again after a second toggle, a stroke painted on both.
C5_Witness ==
  /\ lastOp = "toggleSide"
  /\ activeZone = BOTTOM
  /\ prevActiveZone = TOP
  /\ surface[TOP] # <<>>
  /\ surface[BOTTOM] # <<>>

\* C6: a toggle of the active zone changes the active-zone tag and nothing
\* else of the state: the log, the in-progress stroke, the hidden and label
\* flags and the tool settings stay; the zones repaint the same strokes with
\* the other mirror decision.
C6_ToggleFrame ==
  [][lastOp' = "toggleSide" =>
        /\ activeZone' # activeZone
        /\ UNCHANGED <<strokes, currentStroke, hideActiveZone, showLabels,
                       currentTool, penColor, penWidth, eraserWidth>>
        /\ \A z \in ActiveZone : \A i \in 1 .. Len(surface'[z]) :
             surface'[z][i].isMirror = (z = activeZone)]_vars

C6_Witness ==
  /\ lastOp = "toggleSide"
  /\ strokes # <<>>
  /\ currentStroke # Null
  /\ currentTool = "eraser"
  /\ ~showLabels

\* C7: the active zone with the hidden flag set is cleared and paints no
\* stroke; every other zone paints every committed stroke of the render, in
\* log order, then the in-progress stroke, mirrored exactly when it is the
\* non-active zone; with no render pending these are the strokes of the log.
C7_ShowContent ==
  \A z \in ActiveZone :
    IF z = activeZone /\ hideActiveZone THEN surface[z] = <<>>
    ELSE /\ strokesOf(surface[z]) = closure.strokes \o closure.currentStroke
         /\ \A i \in 1 .. Len(surface[z]) :
              surface[z][i].isMirror = (z # activeZone)
         /\ closure.strokes = strokes => Len(surface[z]) >= Len(strokes)

\* Scenario B: BOTTOM active and hidden, TOP paints the log mirrored.
C7_Witness ==
  /\ activeZone = BOTTOM
  /\ hideActiveZone
  /\ strokes # <<>>
  /\ surface[BOTTOM] = <<>>
  /\ strokesOf(surface[TOP]) = strokes
  /\ surface[TOP][1].isMirror

\* C8: an event on the non-active zone, and a move, up or leave that arrives
\* while no stroke is in progress, change neither the log nor the in-progress
\* stroke nor any flag, setting or capture.
C8_IgnoredChangeNothing ==
  [][(\/ lastOp' = "offZone"
      \/ /\ currentStroke = Null
         /\ lastOp' \in {"idle", "move", "moveStale", "moveRelease", "up", "leave"})
       => UNCHANGED <<strokes, currentStroke, settings, flags, capture>>]_vars

\* C9: an in-progress stroke appears only by a pointer-down on the active
\* zone from a primary contact; a mouse down whose buttons are not exactly
\* the primary button creates no stroke and takes no capture; a touch or pen
\* down on the active zone starts a stroke and takes the capture.
C9_PrimaryContactOnly ==
  [][/\ (currentStroke = Null /\ currentStroke' # Null) => lastOp' = "down"
     /\ lastOp' \in {"down", "downRejected"} =>
        \A z \in ActiveZone : \A e \in PointerEvents[z] : PointerDown(z, e) =>
          /\ lastOp' = "down" =>
               /\ z = activeZone
               /\ e.pointerType = "mouse" => e.buttons = 1
          /\ (e.pointerType = "mouse" /\ e.buttons # 1) =>
               /\ currentStroke' = currentStroke
               /\ capture' = capture
               /\ strokes' = strokes
          /\ (e.pointerType \in {"touch", "pen"} /\ z = activeZone) =>
               /\ currentStroke' # Null
               /\ Val(currentStroke').points = <<getNormalizedPoint(z, e)>>
               /\ capture' = z]_vars

C9_Witness ==
  /\ lastOp = "downRejected"
  /\ currentStroke = Null
  /\ capture = NoCapture
  /\ strokes # <<>>

\* C10: a move that reports the primary contact released while a stroke is
\* in progress commits as a pointer-up is meant to: the in-progress stroke
\* with every point gathered so far goes to the end of the log and no stroke
\* stays in progress.
C10_ReleaseMoveCommitsAll ==
  [][(lastOp' = "moveRelease" /\ currentStroke # Null) =>
        /\ strokes' = Append(strokes, Val(currentStroke))
        /\ currentStroke' = Null]_vars

\* The color, width and eraser flag a stroke carries.
attributes(stroke) ==
  [color |-> stroke.color, width |-> stroke.width, isEraser |-> stroke.isEraser]
\* The attributes that tool settings s give a stroke.
attributesFrom(s) ==
  [color |-> s.penColor,
   width |-> IF s.tool = "eraser" THEN s.eraserWidth ELSE s.penWidth,
   isEraser |-> s.tool = "eraser"]

\* C11: the color, width and eraser flag of a stroke are the tool settings at
\* its pointer-down (the eraser width and isEraser = true under the eraser
\* tool, the pen width and false otherwise); the in-progress stroke keeps them
\* through every later step, whatever the settings become, and the stroke that
\* a commit appends to the log carries them.
C11_AttributesFixedAtDown ==
  /\ [](currentStroke # Null =>
         attributes(Val(currentStroke)) = attributesFrom(atDown))
  /\ [][(lastOp' \in CommitOps /\ currentStroke # Null) =>
          /\ Len(strokes') = Len(strokes) + 1
          /\ attributes(strokes'[Len(strokes')]) = attributesFrom(atDown)]_vars

\* A committed stroke of two points whose color, width and eraser flag all
\* differ from what the settings would now give: they changed mid-gesture.
C11_Witness ==
  /\ lastOp \in CommitOps
  /\ strokes # <<>>
  /\ Len(strokes[Len(strokes)].points) >= 2
  /\ LET a == attributes(strokes[Len(strokes)])
         now == attributesFrom([tool |-> currentTool, penColor |-> penColor,
                                penWidth |-> penWidth, eraserWidth |-> eraserWidth])
     IN a.color # now.color /\ a.width # now.width /\ a.isEraser # now.isEraser

\* The stroke with every point reflected in the horizontal midline.
reflected(stroke) ==
  [stroke EXCEPT !.points = [k \in DOMAIN stroke.points |->
                               [x |-> stroke.points[k].x, y |-> 100 - stroke.points[k].y]]]
\* The path drawStroke builds for the arguments of a call: beginPath makes it
\* independent of the context drawStroke starts from.
pathOf(call, stroke, mirror) ==
  drawStroke(getContext(ctx.canvas), stroke, call.width, call.height, mirror).path

\* C12: drawStroke puts the point p of a stroke at (p.x * W, p.y * H) when the
\* mirror flag is false and at (p.x * W, (1 - p.y) * H) when it is true, the
\* first point and the later ones alike; the X of a point is the same under
\* both values of the flag; reflecting twice gives back the original Y (the
\* mirrored drawing of the reflected stroke is the plain drawing of the stroke).
C12_MirrorTransform ==
  lastCall.stroke.points # <<>> =>
    LET ps == lastCall.stroke.points
        n == Len(ps)
        pointAt(k) == IF n = 1 THEN ps[1] ELSE ps[k]
        toggledPath == pathOf(lastCall, lastCall.stroke, ~lastCall.isMirror)
    IN /\ Len(ctx.path) = (IF n = 1 THEN 2 ELSE n)
       /\ \A k \in DOMAIN ctx.path :
            /\ ctx.path[k].x = pointAt(k).x * lastCall.width
            /\ ctx.path[k].y = (IF lastCall.isMirror THEN 100 - pointAt(k).y
                                 ELSE pointAt(k).y) * lastCall.height
            /\ toggledPath[k].x = ctx.path[k].x
       /\ pathOf(lastCall, reflected(lastCall.stroke), ~lastCall.isMirror) = ctx.path
       /\ reflected(reflected(lastCall.stroke)) = lastCall.stroke

\* A mirrored call on the square canvas whose two points both moved in Y.
C12_Witness ==
  /\ lastCall.isMirror
  /\ lastCall.width = lastCall.height
  /\ Len(lastCall.stroke.points) = 2
  /\ lastCall.stroke.points[1] # lastCall.stroke.points[2]
  /\ Len(ctx.path) = 2
  /\ \A k \in 1 .. 2 : ctx.path[k].y # lastCall.stroke.points[k].y * lastCall.height

\* The places the path of a drawStroke call passes through.
cellsOf(call) ==
  { <<call.stroke.points[k].x * call.width,
      (IF call.isMirror THEN 100 - call.stroke.points[k].y
       ELSE call.stroke.points[k].y) * call.height>> : k \in DOMAIN call.stroke.points }
paintedCells(c) == { <<px[1], px[2]>> : px \in c.pixels }

\* C13: what a zone shows after rendering the log follows commit order.  For
\* strokes i before j of a render: if i is a pen stroke and j an eraser stroke,
\* no place of i that j passes through is painted unless a later pen stroke
\* passes through it; if i is an eraser stroke and j a pen stroke, every place
\* of j holds the color of j unless a later stroke passes through it.
C13_CoverageFollowsOrder ==
  \A z \in ActiveZone :
    LET calls == surface[z]
        canvas == canvasOf(z, calls)
    IN \A i, j \in DOMAIN calls :
         i < j =>
           /\ (~calls[i].stroke.isEraser /\ calls[j].stroke.isEraser) =>
                \A cell \in cellsOf(calls[i]) \cap cellsOf(calls[j]) :
                   (\A k \in DOMAIN calls :
                      (k > j /\ cell \in cellsOf(calls[k])) => calls[k].stroke.isEraser)
                   => cell \notin paintedCells(canvas)
           /\ (calls[i].stroke.isEraser /\ ~calls[j].stroke.isEraser) =>
                \A cell \in cellsOf(calls[j]) :
                   (\A k \in DOMAIN calls : k > j => cell \notin cellsOf(calls[k]))
                   => <<cell[1], cell[2], calls[j].stroke.color>> \in canvas.pixels

\* The mirror zone shows a log of a pen stroke, an eraser stroke over it and
\* a pen stroke committed after the eraser: only the last one is painted.
C13_Witness ==
  /\ Len(strokes) = 3
  /\ ~strokes[1].isEraser /\ strokes[2].isEraser /\ ~strokes[3].isEraser
  /\ Len(surface[other(activeZone)]) = 3
  /\ canvasOf(other(activeZone), surface[other(activeZone)]).pixels # {}
  /\ canvasOf(other(activeZone), SubSeq(surface[other(activeZone)], 1, 2)).pixels = {}

\* C14: the pointer-up or pointer-leave that ends a gesture -- delivered to
\* the canvas that captured the pointer at the gesture's pointer-down, while
\* its stroke is in progress -- commits the stroke and leaves no stroke in
\* progress, whatever toggles were interleaved with the gesture.
C14_UpEndsGesture ==
  [][\A z \in ActiveZone :
       (capture = z /\ currentStroke # Null /\ (PointerUp(z) \/ PointerLeave(z))) =>
         /\ currentStroke' = Null
         /\ Len(strokes') = Len(strokes) + 1]_vars

\* C15: a transition that ends the in-progress stroke releases the pointer
\* capture taken at pointer-down, so whenever no stroke is in progress no
\* canvas holds pointer capture.
C15_IdleHoldsNoCapture == currentStroke = Null => capture = NoCapture

\* The primary contact of the event is held: a touch or pen contact, or a
\* mouse whose buttons mask has the primary bit set.
primaryHeld(e) == e.pointerType # "mouse" \/ e.buttons % 2 = 1

\* C16: while a stroke is in progress, a pointer-move on the active zone whose
\* primary contact is held (touch, pen, or a mouse with the primary button
\* down, alone or with further buttons) appends exactly its one point to the
\* in-progress stroke and leaves the log unchanged.
C16_HeldMoveAppends ==
  [][(currentStroke # Null /\ lastOp' \in {"move", "moveStale", "moveRelease", "idle"}) =>
       \A e \in PointerEvents[activeZone] :
         (primaryHeld(e) /\ PointerMove(activeZone, e)) =>
           /\ strokes' = strokes
           /\ currentStroke' =
                Some([Val(currentStroke) EXCEPT
                        !.points = Append(@, getNormalizedPoint(activeZone, e))])]_vars

\* C17: at most one stroke is in progress, it has at least one point when
\* present, and every stroke of the log has at least one point.
C17_StrokesHavePoints ==
  /\ Len(currentStroke) <= 1
  /\ \A i \in DOMAIN currentStroke : Len(currentStroke[i].points) >= 1
  /\ \A i \in DOMAIN strokes : Len(strokes[i].points) >= 1

\* A stroke of the log and a moved in-progress stroke together.
C17_Witness ==
  /\ lastOp = "move"
  /\ strokes # <<>>
  /\ currentStroke # Null
  /\ Len(Val(currentStroke).points) >= 2

\* C18: a zone that shows content has drawn, in its last render, every stroke
\* of the log in log order and then the in-progress stroke, if any, last; and
\* every drawStroke call of that render got the same mirror flag, the same
\* logical width and the same logical height.
C18_RenderOrder ==
  \A z \in ActiveZone :
    shouldShowContent(z, activeZone, hideActiveZone) =>
      /\ Len(surface[z]) = Len(closure.strokes) + Len(closure.currentStroke)
      /\ \A i \in DOMAIN closure.strokes : surface[z][i].stroke = closure.strokes[i]
      /\ closure.currentStroke # Null =>
           surface[z][Len(surface[z])].stroke = Val(closure.currentStroke)
      /\ \A i, j \in DOMAIN surface[z] :
           /\ surface[z][i].isMirror = surface[z][j].isMirror
           /\ surface[z][i].width = surface[z][j].width
           /\ surface[z][i].height = surface[z][j].height
      /\ \A i \in DOMAIN surface[z] :
           /\ surface[z][i].width = logicalWidth(Val(canvasRef[z]), window)
           /\ surface[z][i].height = logicalHeight(Val(canvasRef[z]), window)

\* Both zones drew two different strokes of the log and then the in-progress
\* stroke, which differs from the stroke committed last.
C18_Witness ==
  /\ Len(closure.strokes) = 2
  /\ closure.strokes[1] # closure.strokes[2]
  /\ closure.currentStroke # Null
  /\ Val(closure.currentStroke) # closure.strokes[2]
  /\ \A z \in ActiveZone : Len(surface[z]) = 3

\* C19: the compositing mode of the context is source-over whenever
\* drawStroke is not executing: it is after every drawStroke call, for an
\* eraser or a pen stroke of any number of points.
C19_SourceOverBetweenCalls == ctx.globalCompositeOperation = "source-over"

\* The last call drew an eraser stroke that took paint away; a stroke
\* without points is the other case.
C19_Witness ==
  /\ lastCall.stroke.isEraser
  /\ lastCall.stroke.points # <<>>
  /\ lastCall.under # {}
  /\ ctx.lineWidth = lastCall.stroke.width

\* C20: drawStroke with a stroke of no points issues no drawing command and
\* changes nothing of the context; with one point it draws, round-capped and
\* with lineWidth = stroke.width, a segment from the point's place to the same
\* place; with n >= 2 points it draws the n - 1 segments that join the places
\* of consecutive points.
C20_SegmentsDrawn ==
  /\ [][\A stroke \in DrawStrokes :
          (stroke.points = <<>> /\ Draw(stroke)) => ctx' = ctx]_vars
  /\ [](lastCall.stroke.points # <<>> =>
         LET n == Len(lastCall.stroke.points)
             place(k) == cellsOf([lastCall EXCEPT !.stroke.points = <<lastCall.stroke.points[k]>>])
             lineTos == { k \in DOMAIN ctx.path : ctx.path[k].op = "lineTo" }
         IN /\ ctx.lineCap = "round"
            /\ ctx.lineWidth = lastCall.stroke.width
            /\ ctx.path[1].op = "moveTo"
            /\ <<ctx.path[1].x, ctx.path[1].y>> \in place(1)
            /\ lineTos = 2 .. Len(ctx.path)
            /\ Cardinality(lineTos) = (IF n = 1 THEN 1 ELSE n - 1)
            /\ \A k \in lineTos :
                 <<ctx.path[k].x, ctx.path[k].y>> \in place(IF n = 1 THEN 1 ELSE k)
            /\ pathCells(ctx.path) \cap paintedCells(ctx) =
                 (IF lastCall.stroke.isEraser THEN {} ELSE pathCells(ctx.path)))

\* A stroke without points was handed to drawStroke after a one-point stroke:
\* the context still holds the dot's path and its paint.
C20_Witness ==
  /\ lastCall.width > 0
  /\ lastCall.stroke.points = <<>>
  /\ Len(ctx.path) = 2
  /\ ctx.path[2].op = "lineTo"
  /\ ctx.path[1].x = ctx.path[2].x /\ ctx.path[1].y = ctx.path[2].y
  /\ <<ctx.path[1].x, ctx.path[1].y>> \in paintedCells(ctx)

\* C23: a gesture appends its stroke to the log at most once: every step that
\* appends to the log appends one stroke and ends a stroke that was in
\* progress, so an up, leave or released-button move that follows the commit
\* of the gesture adds no second copy.
C23_CommitOncePerGesture ==
  [][Len(strokes') > Len(strokes) =>
       /\ currentStroke # Null
       /\ Len(strokes') = Len(strokes) + 1]_vars

\* C24: a pointer-down accepted while a stroke is in progress loses none of
\* its points: after the step they are the points of a stroke appended to the
\* log, or the in-progress stroke still starts with them.
C24_SecondDownKeepsPoints ==
  [][(lastOp' = "down" /\ currentStroke # Null) =>
       LET old == Val(currentStroke).points
       IN \/ /\ Len(strokes') = Len(strokes) + 1
             /\ strokes'[Len(strokes')].points = old
          \/ /\ currentStroke' # Null
             /\ Len(Val(currentStroke').points) >= Len(old)
             /\ SubSeq(Val(currentStroke').points, 1, Len(old)) = old]_vars

\* The zones whose container and canvas are mounted.
mountedZones == { z \in ActiveZone : containerRef[z] # Null /\ canvasRef[z] # Null }

\* C21 as stated: after any sequence of resizes of a mounted surface the
\* buffer width and height equal the latest container size times the device
\* pixel ratio read at that resize, the style size is the container size, and
\* the context's transform is that ratio, applied once.
C21_BufferIsSizeTimesDpr ==
  \A z \in mountedZones :
    LET canvas == Val(canvasRef[z])
        rect == Val(containerRef[z])
    IN /\ canvas.width * 2 = rect.width * dprRead[z]
       /\ canvas.height * 2 = rect.height * dprRead[z]
       /\ canvas.style = rect
       /\ canvas.transform = dprRead[z]

\* C21, amended: the buffer width and height are the integer parts of the
\* latest container size times the device pixel ratio read at that resize; the
\* style size is the container size and the context's transform is that
\* ratio, applied once.
C21_BufferIsWholePartOfSizeTimesDpr ==
  \A z \in mountedZones :
    LET canvas == Val(canvasRef[z])
        rect == Val(containerRef[z])
    IN /\ canvas.width * 2 <= rect.width * dprRead[z]
       /\ rect.width * dprRead[z] < (canvas.width + 1) * 2
       /\ canvas.height * 2 <= rect.height * dprRead[z]
       /\ rect.height * dprRead[z] < (canvas.height + 1) * 2
       /\ canvas.style = rect
       /\ canvas.transform = dprRead[z]

\* A zone was resized to a container of 3.5 by 2.5 CSS pixels on a screen of
\* ratio 1, after its first resize at ratio 2: the buffer is 3 by 2.
C21_Witness ==
  \E z \in mountedZones :
    /\ lastOp = "resize"
    /\ dprRead[z] = 1
    /\ Val(containerRef[z]).width = 7
    /\ Val(canvasRef[z]).width = 3
    /\ Val(canvasRef[z]).height = 2
    /\ Val(canvasRef[z]).transform = 1

\* The drawStroke calls of a full render of zone z from the state of the last
\* React render, on the canvas the zone has after the step.
fullRender(z) ==
  LET all == closure.strokes \o closure.currentStroke
  IN IF isActiveWritingZone(z, activeZone) /\ hideActiveZone THEN <<>>
     ELSE [i \in 1 .. Len(all) |->
             [stroke |-> all[i],
              width |-> logicalWidth(Val(canvasRef'[z]), window),
              height |-> logicalHeight(Val(canvasRef'[z]), window),
              isMirror |-> z # activeZone]]

\* C22: a resize of a mounted surface renders the zone in full from the
\* current state -- the log and in-progress stroke of the last React render
\* and the current active zone and hidden flag, not those in force when an
\* observer was first installed -- and changes nothing of the state; on a zone
\* whose container or canvas is not mounted a resize changes nothing, and no
\* step renders to it.
C22_ResizeRendersCurrentState ==
  [][/\ \A z \in ActiveZone : \A rect \in ContentRects :
          (lastOp' \in {"resize", "unmounted"} /\ ResizeObserved(z, rect)) =>
            /\ UNCHANGED <<strokes, currentStroke, closure, settings, flags>>
            /\ IF z \in mountedZones
                 THEN lastOp' = "resize" /\ surface'[z] = fullRender(z)
                 ELSE UNCHANGED <<surface, canvasVars>>
     /\ \A z \in ActiveZone :
          (canvasRef[z] = Null /\ canvasRef'[z] = Null) => surface'[z] = surface[z]]_vars

\* The TOP zone, made the active one after the observers were first
\* installed, was resized to another size while the log held a stroke and a
\* stroke was in progress: it shows both.
C22_Witness ==
  /\ lastOp = "resize"
  /\ activeZone = TOP
  /\ TOP \in mountedZones
  /\ Val(containerRef[TOP]) # contentRect(TOP)
  /\ closure.strokes # <<>>
  /\ closure.currentStroke # Null
  /\ Len(surface[TOP]) = Len(closure.strokes) + 1

\* C25: in every render of a mounted zone the logical width and height handed
\* to drawStroke, multiplied by the scale transform on the context, are the
\* buffer width and height of the canvas, also when the device pixel ratio
\* changed after the last resize.
C25_LogicalTimesScaleIsBuffer ==
  \A z \in mountedZones : \A i \in DOMAIN surface[z] :
    /\ surface[z][i].width * Val(canvasRef[z]).transform = Val(canvasRef[z]).width * 2
    /\ surface[z][i].height * Val(canvasRef[z]).transform = Val(canvasRef[z]).height * 2
====
